---- MODULE Spec2Model ----
(***************************************************************************)
(* Model of the hybrid PoS + PoH consensus engine (package consensus).     *)
(*                                                                         *)
(* Units.  The engine counts stake in wei (MinStake = 10^21) and credits   *)
(* a reward of 10^18 per block; the model counts stake and reward in small *)
(* units, so MinStake and TotalReward are scaled, and the 64 shards of     *)
(* shuffleValidators are scaled to ShardCount so that rosters larger than  *)
(* the shard count are reachable.  Unsigned arithmetic wraps at UintMod.   *)
(* A float64 carries MantissaBits significant bits (53 in the engine); the *)
(* reward needs more bits than that, as 10^18 does against 2^53.  In       *)
(* package fees, where amounts are multiplied by percentages, a float64    *)
(* carries FeeMantissaBits bits, enough for 100 and less than a large      *)
(* base fee times the burn percentage needs.                               *)
(*                                                                         *)
(* Hashes.  sha256 and Header.Hash are injective encodings of what they    *)
(* hash: a hash is a sequence of integers, tagged by its first element.    *)
(***************************************************************************)
EXTENDS Integers, Sequences, FiniteSets, TLC

\* ---- bounds of the model -------------------------------------------------
MinStake == 2
ShardCount == 2
TotalReward == 12
MaxValidators == 3
StakeBits == 5
MaxHeight == 2
MaxClock == 1
MaxPoH == 3
MaxVotes == 2
MaxRuns == 2
MaxBlocks == 1
EngineValidators == 2
NumCallers == 2
MantissaBits == 3
ScenarioValidators == 4
ScenarioHeight == 5
ScenarioVotes == 3
QuorumRoster == 6
TotalPool == 3
InitialReward == 1
HalvingInterval == 2
MaxPhases == 3
HistoryLimit == 2
FeeMantissaBits == 8
FeeBits == 9
DefaultBaseFee == 20
DefaultMaxTip == 1
DefaultMaxFee == 2
BurnEventLimit == 2
EvmShards == 2
TxHashes == 4
MaxBlockTxs == 2
MaxReturns == 1

UintMod == 2 ^ StakeBits
\* validator addresses (each stands for an address of at least 8 bytes)
Addrs == 1 .. MaxValidators
StakeIn == {MinStake - 1, MinStake, MinStake + 1}
PenaltyIn == {1, MinStake + 2}
HeightIn == ((-1) .. MaxHeight) \cup {ScenarioHeight}
TopHeight == IF ScenarioHeight > MaxHeight THEN ScenarioHeight ELSE MaxHeight
Callers == 1 .. NumCallers
Reasons == {"DoubleSign"}

\* ---- error values (the messages of the fmt.Errorf calls) ------------------
NoErr == "nil"
ErrStakeBelowMinimum == "validator stake below minimum"
ErrAlreadyExists == "validator already exists"
ErrNotFound == "validator not found"
ErrNoValidators == "no validators available"
ErrInsufficientSignatures == "insufficient signatures for finality"
ErrPanic == "panic"

VARIABLES
    vsArray,        \* backing array of c.ValidatorSet (what live slices can see)
    vsLen,          \* len(c.ValidatorSet)
    Committees,     \* c.Committees: slices [lo, hi) of the backing array
    PoHSequence,    \* c.PoHSequence
    CurrentHeight,  \* c.CurrentHeight
    CurrentBlock,   \* c.CurrentBlock: <<>> is nil, <<b>> points to block b
    Commit,         \* c.Commit: <<>> is nil
    FinalityVotes,  \* c.FinalityVotes: height -> list of votes
    muFinality,     \* holder of c.muFinality (0 = free)
    pc,             \* position of each FinalizeBlock caller
    fin,            \* locals of each FinalizeBlock caller
    ret,            \* result of each caller's last FinalizeBlock call
    rewardRuns,     \* history: number of distributeRewards runs per height
    last,           \* result of the last call made under c.mu
    clock,          \* time.Now().Unix()
    panicked,       \* an unrecovered panic ended the process
    mu,             \* the operation holding c.mu (Free = nobody)
    loops,          \* the blockProductionLoop goroutines, one per Start
    quorum,         \* a roster size, two vote sets and the quorum computed for them
    halving,        \* the Halving instance (package halving)
    hlast,          \* result of the last call on the Halving instance
    fees,           \* the Fees instance (package fees)
    flast,          \* result of the last call on the Fees instance
    tok,            \* the Tokenomics instance (package tokenomics)
    tlast,          \* result of the last call on the Tokenomics instance
    dr,             \* locals of each caller's distributeRewards loop
    evm,            \* the EVM instance (package vm) and its ExecuteBlock call
    rw              \* h.mu and f.mu with the goroutines that take them

vars == <<vsArray, vsLen, Committees, PoHSequence, CurrentHeight, CurrentBlock,
          Commit, FinalityVotes, muFinality, pc, fin, ret, rewardRuns, last,
          clock, panicked, mu, loops, quorum, halving, hlast,
          fees, flast, tok, tlast, dr, evm, rw>>

rosterVars == <<vsArray, vsLen, Committees>>
chainVars == <<PoHSequence, CurrentHeight, CurrentBlock, Commit>>
finVars == <<FinalityVotes, muFinality, pc, fin, ret, rewardRuns>>
driverVars == <<mu, loops>>
\* what the operations below leave alone when they run as one step
halvingVars == <<halving, hlast>>
feeVars == <<fees, flast>>
tokenVars == <<tok, tlast>>
\* the objects of the other packages
packageVars == <<tokenVars, evm, rw>>
restVars == <<packageVars, dr>>
\* the objects beside the engine
sideVars == <<quorum, halvingVars, feeVars, restVars>>
auxVars == <<driverVars, sideVars>>
engineVars == <<rosterVars, chainVars, finVars, last, clock, panicked, driverVars>>

\* ---- helpers ---------------------------------------------------------------
Max(a, b) == IF a >= b THEN a ELSE b

\* c.ValidatorSet: the first vsLen elements of its backing array
ValidatorSet == SubSeq(vsArray, 1, vsLen)

\* committee.Validators = c.ValidatorSet[start:end], a slice sharing the array
CommitteeValidators(c) == SubSeq(vsArray, c.lo + 1, c.hi)

RosterAddrs == {ValidatorSet[i].Address : i \in 1 .. vsLen}

\* index (1-based) of the roster entry with this address, 0 when absent
FindValidatorOrFirst(address) ==
    IF \E i \in 1 .. vsLen : ValidatorSet[i].Address = address
    THEN CHOOSE i \in 1 .. vsLen : ValidatorSet[i].Address = address
    ELSE IF vsLen > 0 THEN 1 ELSE 0

FindValidator(address) ==
    IF \E i \in 1 .. vsLen : ValidatorSet[i].Address = address
    THEN CHOOSE i \in 1 .. vsLen :
             /\ ValidatorSet[i].Address = address
             /\ \A j \in 1 .. (i - 1) : ValidatorSet[j].Address # address
    ELSE 0

\* v.Power = int64(v.Stake / 1000000000), in the model's stake unit
PowerOf(stake) == stake

\* highest end of any committee's slice
MaxHi(comms) ==
    IF comms = <<>> THEN 0
    ELSE CHOOSE m \in {comms[i].hi : i \in 1 .. Len(comms)} :
             \A i \in 1 .. Len(comms) : comms[i].hi <= m

\* the part of the backing array some live slice reaches (c.ValidatorSet or a
\* committee's Validators); slots beyond it can never be read again
Reachable(arr, len, comms) == SubSeq(arr, 1, Max(len, MaxHi(comms)))

\* append(c.ValidatorSet, v): writes slot len of the backing array
AppendValidator(arr, len, v) ==
    IF len < Len(arr) THEN [arr EXCEPT ![len + 1] = v] ELSE Append(SubSeq(arr, 1, len), v)

\* append(c.ValidatorSet[:i], c.ValidatorSet[i+1:]...): shifts the tail down
\* in place; the last slot keeps its old content (i is 1-based here)
SpliceOut(arr, len, i) ==
    [k \in 1 .. Len(arr) |-> IF k >= i /\ k < len THEN arr[k + 1] ELSE arr[k]]

\* ---- shuffleValidators -------------------------------------------------------
shuffleValidators(totalValidators, old) ==
    IF totalValidators = 0 THEN old
    ELSE LET q == totalValidators \div ShardCount
             validatorsPerShard == IF q = 0 THEN 1 ELSE q
         IN [s \in 1 .. ShardCount |->
                LET start == (s - 1) * validatorsPerShard
                    end0 == start + validatorsPerShard
                    end == IF end0 > totalValidators THEN totalValidators ELSE end0
                IN IF start >= totalValidators
                   THEN [ID |-> s - 1, lo |-> 0, hi |-> 0]
                   ELSE [ID |-> s - 1, lo |-> start, hi |-> end]]

NoResult == [op |-> "none", err |-> NoErr, address |-> 0, arg |-> 0,
             stakeBefore |-> 0, penalty |-> 0, stakeAfter |-> 0]

Result(op, err, address, arg) ==
    [op |-> op, err |-> err, address |-> address, arg |-> arg,
     stakeBefore |-> 0, penalty |-> 0, stakeAfter |-> 0]

\* ---- AddValidator ------------------------------------------------------------
\* the checks without the loop over c.ValidatorSet
AddValidatorCheckNoDup(address, stake) ==
    IF stake < MinStake THEN ErrStakeBelowMinimum ELSE NoErr

AddValidatorCheck(address, stake) ==
    IF stake < MinStake THEN ErrStakeBelowMinimum
    ELSE IF address \in RosterAddrs THEN ErrAlreadyExists
    ELSE NoErr

AddValidator(address, stake) ==
    LET err == AddValidatorCheck(address, stake)
        v == [Address |-> address, Stake |-> stake, Power |-> PowerOf(stake),
              Reward |-> 0, Slashed |-> FALSE, SlashingEvents |-> <<>>]
        arr == AppendValidator(vsArray, vsLen, v)
        comms == shuffleValidators(vsLen + 1, Committees)
    IN /\ ~panicked
       /\ last' = Result("AddValidator", err, address, stake)
       /\ IF err = NoErr
          THEN /\ vsLen' = vsLen + 1
               /\ Committees' = comms
               /\ vsArray' = Reachable(arr, vsLen + 1, comms)
          ELSE UNCHANGED rosterVars
       /\ UNCHANGED <<chainVars, finVars, clock, panicked>>

\* ---- RemoveValidator ---------------------------------------------------------
RemoveValidator(address) ==
    LET i == FindValidator(address)
        arr == SpliceOut(vsArray, vsLen, i)
        comms == shuffleValidators(vsLen - 1, Committees)
    IN /\ ~panicked
       /\ IF i # 0
          THEN /\ vsLen' = vsLen - 1
               /\ Committees' = comms
               /\ vsArray' = Reachable(arr, vsLen - 1, comms)
               /\ last' = Result("RemoveValidator", NoErr, address, 0)
          ELSE /\ UNCHANGED rosterVars
               /\ last' = Result("RemoveValidator", ErrNotFound, address, 0)
       /\ UNCHANGED <<chainVars, finVars, clock, panicked>>

\* ---- SlashValidator ----------------------------------------------------------
\* if penalty > val.Stake { penalty = val.Stake }
ClampPenaltyUnclamped(penalty, stake) == penalty

ClampPenalty(penalty, stake) == IF penalty > stake THEN stake ELSE penalty

\* if val.Stake < MinStake: evict, else store the slashed copy back
SlashEvictsNever(stake) == FALSE

SlashEvicts(stake) == stake < MinStake

SlashValidator(address, reason, penaltyArg) ==
    LET i == FindValidator(address)
        val == ValidatorSet[i]
        penalty == ClampPenalty(penaltyArg, val.Stake)
        stake == (val.Stake - penalty) % UintMod
        event == [Height |-> CurrentHeight, Reason |-> reason,
                  Penalty |-> penalty, Timestamp |-> clock]
        slashed == [val EXCEPT !.Stake = stake, !.Slashed = TRUE,
                               !.SlashingEvents = Append(@, event)]
        res == [op |-> "SlashValidator", err |-> NoErr, address |-> address,
                arg |-> penaltyArg, stakeBefore |-> val.Stake,
                penalty |-> event.Penalty, stakeAfter |-> stake]
    IN /\ ~panicked
       /\ IF i # 0
          THEN /\ last' = res
               /\ IF SlashEvicts(stake)
                  THEN /\ vsLen' = vsLen - 1
                       /\ vsArray' = Reachable(SpliceOut(vsArray, vsLen, i),
                                                vsLen - 1, Committees)
                       /\ UNCHANGED Committees
                  ELSE /\ vsArray' = [vsArray EXCEPT ![i] = slashed]
                       /\ UNCHANGED <<vsLen, Committees>>
          ELSE /\ UNCHANGED rosterVars
               /\ last' = Result("SlashValidator", ErrNotFound, address, penaltyArg)
       /\ UNCHANGED <<chainVars, finVars, clock, panicked>>

\* ---- Proof of History --------------------------------------------------------
GenesisHash == <<0>>
EmptyHash == <<>>

\* sha256(prev.Hash || BigEndian(height) || BigEndian(time.Now().Unix()))
hashEntry(prevHash, height, now) == <<1>> \o prevHash \o <<height, now>>

\* Header.Hash(): a digest of the header's fields
HeaderHash(b) == <<2, b.Height, b.Time, b.Proposer>> \o b.LastBlockID

\* an initialization that starts the sequence over
initializePoHReset(seq, now) ==
    <<[Index |-> 0, Hash |-> <<0>>, PreviousHash |-> <<>>, Timestamp |-> now]>>

\* initializePoH: appends the genesis entry
initializePoH(seq, now) ==
    Append(seq, [Index |-> 0, Hash |-> GenesisHash, PreviousHash |-> EmptyHash,
                 Timestamp |-> now])

\* getPoHEntry generates a new entry when height < 0 or height >= len
getPoHEntryExtends(seq, height) == height < 0 \/ height >= Len(seq)

\* the entry getPoHEntry generates from the tail of the sequence
newPoHEntry(seq, height, hashNow, entryNow) ==
    LET prevEntry == seq[Len(seq)]
    IN [Index |-> prevEntry.Index + 1,
        Hash |-> hashEntry(prevEntry.Hash, height, hashNow),
        PreviousHash |-> prevEntry.Hash,
        Timestamp |-> entryNow]

\* the sequence after getPoHEntry(height)
getPoHEntrySeq(seq, height, hashNow, entryNow) ==
    IF getPoHEntryExtends(seq, height)
    THEN Append(seq, newPoHEntry(seq, height, hashNow, entryNow))
    ELSE seq

\* the entry getPoHEntry(height) returns
getPoHEntry(seq, height, hashNow, entryNow) ==
    IF getPoHEntryExtends(seq, height)
    THEN newPoHEntry(seq, height, hashNow, entryNow)
    ELSE seq[height + 1]

\* a selection that is off by one position
selectProposerNext(entry) == ValidatorSet[((entry.Index + 1) % vsLen) + 1].Address

\* selectProposer: ValidatorSet[pohEntry.Index % len(ValidatorSet)].Address
selectProposer(entry) == ValidatorSet[(entry.Index % vsLen) + 1].Address

\* updatePoHSequence: the closing entry appended at finalization
updatePoHSequence(seq, block, cur, now) ==
    IF block.Height >= Len(seq)
    THEN Append(seq, [Index |-> block.Height,
                      Hash |-> HeaderHash(block),
                      PreviousHash |-> HeaderHash(cur),
                      Timestamp |-> now])
    ELSE seq

\* ---- blocks --------------------------------------------------------------------
\* block.Data.Extensions[0]: Bytes is <<p>> when the bytes are the JSON of the
\* PoHProof p and <<>> when json.Unmarshal rejects them
Extension(proof) == [Index |-> 0, Bytes |-> <<proof>>]
BadExtension == [Index |-> 0, Bytes |-> <<>>]

\* a block a caller of CommitBlock or FinalizeBlock hands in for a height: one
\* received from a peer, with or without the PoH extension
PeerBlock(height, withProof) ==
    [Height |-> height, Time |-> 0, LastBlockID |-> EmptyHash, Proposer |-> 0,
     Extensions |->
         IF withProof
         THEN <<Extension([Entry |-> [Index |-> height,
                                      Hash |-> hashEntry(GenesisHash, height, 0),
                                      PreviousHash |-> GenesisHash, Timestamp |-> 0],
                           Validator |-> 0, Timestamp |-> 0])>>
         ELSE <<>>]

\* a peer's block whose extension does not decode
MalformedBlock(height) ==
    [PeerBlock(height, FALSE) EXCEPT !.Extensions = <<BadExtension>>]

PeerBlocks == {PeerBlock(h, w) : h \in 0 .. MaxHeight, w \in BOOLEAN}
                  \cup {MalformedBlock(0)}

\* number of blocks chained behind b through LastBlockID
ChainDepth(b) == Len(HeaderHash(b)) \div 4

\* ---- Start ---------------------------------------------------------------------
\* initializePoH, shuffleValidators, go blockProductionLoop: the loop's calls
\* (ProduceBlock, CommitBlock, FinalizeBlock) are the actions below, taken at
\* any time
Start ==
    /\ ~panicked
    /\ Len(PoHSequence) < MaxPoH
    /\ PoHSequence' = initializePoH(PoHSequence, clock)
    /\ Committees' = shuffleValidators(vsLen, Committees)
    /\ vsArray' = Reachable(vsArray, vsLen, Committees')
    /\ last' = Result("Start", NoErr, 0, 0)
    /\ UNCHANGED <<vsLen, CurrentHeight, CurrentBlock, Commit, finVars, clock, panicked>>

\* ---- ProduceBlock --------------------------------------------------------------
ProduceBlock(height, entryNow) ==
    LET seq == getPoHEntrySeq(PoHSequence, height, clock, entryNow)
        pohEntry == getPoHEntry(PoHSequence, height, clock, entryNow)
        proposer == selectProposer(pohEntry)
        block == [Height |-> height, Time |-> entryNow,
                  LastBlockID |-> HeaderHash(CurrentBlock[1]),
                  Proposer |-> proposer,
                  Extensions |-> <<Extension([Entry |-> pohEntry,
                                              Validator |-> proposer,
                                              Timestamp |-> entryNow])>>]
    IN /\ ~panicked
       /\ entryNow >= clock
       /\ getPoHEntryExtends(PoHSequence, height) => Len(PoHSequence) < MaxPoH
       /\ CurrentBlock # <<>> => ChainDepth(CurrentBlock[1]) <= MaxBlocks
       /\ UNCHANGED <<rosterVars, Commit, finVars>>
       /\ IF getPoHEntryExtends(PoHSequence, height) /\ PoHSequence = <<>>
          THEN \* c.PoHSequence[len(c.PoHSequence)-1] on an empty sequence
               /\ panicked' = TRUE
               /\ last' = Result("ProduceBlock", ErrPanic, 0, height)
               /\ UNCHANGED <<PoHSequence, CurrentHeight, CurrentBlock, clock>>
          ELSE /\ PoHSequence' = seq
               /\ clock' = IF getPoHEntryExtends(PoHSequence, height)
                           THEN entryNow ELSE clock
               /\ IF vsLen = 0
                  THEN /\ last' = Result("ProduceBlock", ErrNoValidators, 0, height)
                       /\ UNCHANGED <<CurrentHeight, CurrentBlock, panicked>>
                  ELSE IF CurrentBlock = <<>>
                  THEN \* c.CurrentBlock.Header on a nil block
                       /\ panicked' = TRUE
                       /\ last' = Result("ProduceBlock", ErrPanic, proposer, height)
                       /\ UNCHANGED <<CurrentHeight, CurrentBlock>>
                  ELSE /\ CurrentHeight' = height
                       /\ CurrentBlock' = <<block>>
                       /\ last' = Result("ProduceBlock", NoErr, proposer, height)
                       /\ UNCHANGED panicked

\* ---- CommitBlock ---------------------------------------------------------------
ErrMissingProof == "missing PoH proof"
ErrUnmarshalProof == "failed to unmarshal PoH proof"

\* verifyPoHProof: the extension must be there and decode; the decoded proof
\* is not looked at
verifyPoHProof(block) ==
    IF Len(block.Extensions) = 0 THEN ErrMissingProof
    ELSE IF Len(block.Extensions[1].Bytes) = 0 THEN ErrUnmarshalProof
    ELSE NoErr

CommitBlock(block) ==
    /\ ~panicked
    /\ LET err == verifyPoHProof(block)
       IN /\ last' = Result("CommitBlock", err, 0, block.Height)
          /\ Commit' = IF err = NoErr
                       THEN <<[BlockID |-> HeaderHash(block), Signatures |-> <<>>]>>
                       ELSE Commit
    /\ UNCHANGED <<rosterVars, PoHSequence, CurrentHeight, CurrentBlock, finVars,
                   clock, panicked>>

\* ---- finality votes ------------------------------------------------------------
\* votes reach the engine through the exported map c.FinalityVotes, whose
\* values are lists of votes ([]*types.Vote); a vote is its validator's address
TotalVotes == LET F[h \in (-2) .. TopHeight] ==
                      IF h < -1 THEN 0
                      ELSE (IF h \in HeightIn THEN Len(FinalityVotes[h]) ELSE 0)
                               + F[h - 1]
              IN F[TopHeight]

appendVote(height, validator) ==
    /\ ~panicked
    /\ FinalityVotes' = [FinalityVotes EXCEPT ![height] = Append(@, validator)]
    /\ UNCHANGED <<rosterVars, chainVars, muFinality, pc, fin, ret, rewardRuns,
                   last, clock, panicked>>

RecordFinalityVote(height, validator) ==
    /\ TotalVotes < MaxVotes
    /\ appendVote(height, validator)

\* distinct validator identities in a list of votes
Distinct(votes) == {votes[i] : i \in 1 .. Len(votes)}

\* ---- FinalizeBlock -------------------------------------------------------------
requiredSignaturesNoMargin(n) == (n * 2) \div 3
\* requiredSignatures := (len(c.ValidatorSet) * 2 / 3) + 1
requiredSignatures(n) == ((n * 2) \div 3) + 1

\* getTotalStake
getTotalStake(set) ==
    LET F[k \in 0 .. Len(set)] ==
            IF k = 0 THEN 0 ELSE (F[k - 1] + set[k].Stake) % UintMod
    IN F[Len(set)]

\* ---- float64 ---------------------------------------------------------------
\* a float is a fraction [num, den] with at most bits significant bits
\* the binary exponent of n / d (n > 0, d > 0): 2^e <= n / d < 2^(e + 1)
RECURSIVE Exponent(_, _)
Exponent(n, d) ==
    IF n >= 2 * d THEN Exponent(n, 2 * d) + 1
    ELSE IF n < d THEN Exponent(2 * n, d) - 1
    ELSE 0

\* the integer nearest to n / d, ties to even
RoundHalfEven(n, d) ==
    LET q == n \div d
        r == n % d
    IN IF 2 * r < d THEN q
       ELSE IF 2 * r > d THEN q + 1
       ELSE IF q % 2 = 0 THEN q ELSE q + 1

\* the float nearest to n / d (n >= 0, d > 0): the result of a conversion or of
\* an arithmetic operation whose exact value is n / d
Float(bits, n, d) ==
    IF n = 0 THEN [num |-> 0, den |-> 1]
    ELSE LET Up(s) == IF s >= 0 THEN 2 ^ s ELSE 1
             Down(s) == IF s >= 0 THEN 1 ELSE 2 ^ (0 - s)
             s == bits - 1 - Exponent(n, d)
             m == RoundHalfEven(n * Up(s), d * Down(s))
         IN [num |-> m * Down(s), den |-> Up(s)]

\* float64 in package consensus
Float64(n, d) == Float(MantissaBits, n, d)

\* stakeRatio := float64(val.Stake) / float64(c.getTotalStake())
\* reward := uint64(float64(totalReward) * stakeRatio)
\* (the total stake of a non-empty roster is positive)
rewardShare(stake, total) ==
    LET fs == Float64(stake, 1)
        ft == Float64(total, 1)
        stakeRatio == Float64(fs.num * ft.den, fs.den * ft.num)
        fr == Float64(TotalReward, 1)
        reward == Float64(fr.num * stakeRatio.num, fr.den * stakeRatio.den)
    IN reward.num \div reward.den

\* distributeRewards: every roster entry gets its share added
distributeRewards(arr, len) ==
    LET total == getTotalStake(SubSeq(arr, 1, len))
    IN [k \in 1 .. Len(arr) |->
           IF k <= len
           THEN [arr[k] EXCEPT !.Reward = (@ + rewardShare(arr[k].Stake, total)) % UintMod]
           ELSE arr[k]]

NoRet == [status |-> "none", height |-> 0, have |-> 0, need |-> 0, rivals |-> {}]
NoFin == [block |-> PeerBlock(0, FALSE), rivals |-> {}]

InFlight == {u \in Callers : pc[u] # "idle"}

TotalRuns == LET F[h \in (-2) .. TopHeight] ==
                     IF h < -1 THEN 0
                     ELSE (IF h \in HeightIn THEN rewardRuns[h] ELSE 0) + F[h - 1]
             IN F[TopHeight]

\* a caller invokes FinalizeBlock(block); rivals records which callers' calls
\* overlap this one
FinalizeCall(t, block) ==
    /\ ~panicked
    /\ pc[t] = "idle"
    /\ TotalRuns + Cardinality(InFlight) < MaxRuns
    /\ fin' = [u \in Callers |->
                   IF u = t THEN [block |-> block, rivals |-> InFlight]
                   ELSE IF u \in InFlight THEN [fin[u] EXCEPT !.rivals = @ \cup {t}]
                   ELSE fin[u]]
    /\ pc' = [pc EXCEPT ![t] = "lock"]
    /\ ret' = [ret EXCEPT ![t] = [NoRet EXCEPT !.status = "pending"]]
    /\ UNCHANGED <<rosterVars, chainVars, FinalityVotes, muFinality, rewardRuns,
                   last, clock, panicked>>

\* len(currentVotes): the tally FinalizeBlock compares and reports
voteTally(currentVotes) == Len(currentVotes)

\* len(currentVotes) >= requiredSignatures
HasQuorum(currentVotes, n) == voteTally(currentVotes) >= requiredSignatures(n)

\* c.muFinality.Lock() and the signature check
FinalizeCheck(t) ==
    /\ ~panicked
    /\ pc[t] = "lock"
    /\ muFinality = 0
    /\ LET height == fin[t].block.Height
           currentVotes == FinalityVotes[height]
       IN IF HasQuorum(currentVotes, vsLen)
          THEN /\ muFinality' = t
               /\ pc' = [pc EXCEPT ![t] = "rewards"]
               /\ UNCHANGED <<fin, ret>>
          ELSE /\ pc' = [pc EXCEPT ![t] = "idle"]
               /\ ret' = [ret EXCEPT ![t] =
                              [status |-> ErrInsufficientSignatures, height |-> height,
                               have |-> voteTally(currentVotes),
                               need |-> requiredSignatures(vsLen),
                               rivals |-> fin[t].rivals]]
               /\ fin' = [fin EXCEPT ![t] = NoFin]
               /\ UNCHANGED muFinality
    /\ UNCHANGED <<rosterVars, chainVars, FinalityVotes, rewardRuns, last, clock,
                   panicked>>

\* c.distributeRewards(block.Header.Height)
FinalizeRewards(t) ==
    /\ ~panicked
    /\ pc[t] = "rewards"
    /\ vsArray' = distributeRewards(vsArray, vsLen)
    /\ rewardRuns' = [rewardRuns EXCEPT ![fin[t].block.Height] = @ + 1]
    /\ pc' = [pc EXCEPT ![t] = "poh"]
    /\ UNCHANGED <<vsLen, Committees, chainVars, FinalityVotes, muFinality, fin, ret,
                   last, clock, panicked>>

\* updatePoHSequence reads c.CurrentBlock.Header when it appends
updatePoHPanics(seq, block, cur) == block.Height >= Len(seq) /\ cur = <<>>

\* c.updatePoHSequence(block); return nil
FinalizeReturn(t) ==
    /\ ~panicked
    /\ pc[t] = "poh"
    /\ muFinality' = 0
    /\ pc' = [pc EXCEPT ![t] = "idle"]
    /\ fin' = [fin EXCEPT ![t] = NoFin]
    /\ IF updatePoHPanics(PoHSequence, fin[t].block, CurrentBlock)
       THEN /\ panicked' = TRUE
            /\ ret' = [ret EXCEPT ![t] =
                           [status |-> ErrPanic, height |-> fin[t].block.Height,
                            have |-> 0, need |-> 0, rivals |-> fin[t].rivals]]
            /\ UNCHANGED PoHSequence
       ELSE /\ PoHSequence' = updatePoHSequence(PoHSequence, fin[t].block,
                                                CurrentBlock[1], clock)
            /\ ret' = [ret EXCEPT ![t] =
                           [status |-> NoErr, height |-> fin[t].block.Height,
                            have |-> 0, need |-> 0, rivals |-> fin[t].rivals]]
            /\ UNCHANGED panicked
    /\ UNCHANGED <<rosterVars, CurrentHeight, CurrentBlock, Commit, FinalityVotes,
                   rewardRuns, last, clock>>

\* ---- the clock -----------------------------------------------------------------
Tick ==
    /\ ~panicked
    /\ clock < MaxClock
    /\ clock' = clock + 1
    /\ UNCHANGED <<rosterVars, chainVars, finVars, last, panicked>>

\* ---- specification -------------------------------------------------------------
\* the engine New() returns
EngineInit ==
    /\ vsArray = <<>>
    /\ vsLen = 0
    /\ Committees = <<>>
    /\ PoHSequence = <<>>
    /\ CurrentHeight = 0
    /\ CurrentBlock = <<>>
    /\ Commit = <<>>
    /\ FinalityVotes = [h \in HeightIn |-> <<>>]
    /\ muFinality = 0
    /\ pc = [t \in Callers |-> "idle"]
    /\ fin = [t \in Callers |-> NoFin]
    /\ ret = [t \in Callers |-> NoRet]
    /\ rewardRuns = [h \in HeightIn |-> 0]
    /\ last = NoResult
    /\ clock = 0
    /\ panicked = FALSE
    /\ mu = "free"
    /\ loops = <<>>

NoQuorum == [n |-> 0, first |-> {}, second |-> {}, required |-> 0]

\* halving.New(): no phase yet, the whole pool undistributed
HalvingNew ==
    [phases |-> <<>>, currentPhase |-> 0, currentBlock |-> 0,
     rewardPool |-> TotalPool, distributed |-> 0, rewardHistory |-> <<>>,
     adjustmentFactor |-> [num |-> 1, den |-> 1]]
NoReward == [op |-> "none", err |-> NoErr, blockNumber |-> 0, reward |-> 0]

HalvingInit ==
    /\ halving = HalvingNew
    /\ hlast = NoReward

\* fees.New(): the default configuration, not running
BurnPercent == 20
DefaultConfig ==
    [BaseFee |-> DefaultBaseFee, BurnPercent |-> BurnPercent, MinTip |-> 0,
     MaxTip |-> DefaultMaxTip, PriorityFee |-> 0, MaxFee |-> DefaultMaxFee]
FeesNew == [config |-> DefaultConfig, running |-> FALSE]
NoFee == [BaseFee |-> 0, Tip |-> 0, PriorityFee |-> 0, Total |-> 0, Burned |-> 0,
          Validator |-> 0]
NoFeeResult == [op |-> "none", err |-> NoErr, tip |-> 0, txType |-> "", fee |-> NoFee]

FeesInit ==
    /\ fees = FeesNew
    /\ flast = NoFeeResult

\* tokenomics.New(): the fixed supply, no burn yet, minting disabled
FixedAmount == "1000000000000000000000000000"
TokenomicsNew ==
    [totalSupply |-> [Fixed |-> TRUE, Immutable |-> TRUE, Amount |-> FixedAmount],
     burnEvents |-> <<>>,
     minting |-> [Enabled |-> FALSE, MaxSupply |-> FixedAmount, HardCapped |-> TRUE]]
NoTokenResult == [op |-> "none", err |-> NoErr, value |-> <<>>]

TokenInit ==
    /\ tok = TokenomicsNew
    /\ tlast = NoTokenResult

\* the packages beside consensus, halving and fees
\* no distributeRewards loop is running
NoLoopVars == [pc |-> "idle", i |-> 0, n |-> 0, reward |-> 0, address |-> 0,
               credited |-> {}, misplaced |-> FALSE]

\* vm.NewEVM(): not running, the shards not created yet, no block in execution
ShardIDs == 0 .. (EvmShards - 1)
NoWorker == [pc |-> "none", txList |-> <<>>]
NewEVM ==
    [running |-> FALSE, currentBlock |-> 0,
     locked |-> [s \in ShardIDs |-> FALSE],
     Results |-> [s \in ShardIDs |-> {}],
     pc |-> "idle", txs |-> <<>>,
     workers |-> [s \in ShardIDs |-> NoWorker],
     resultsCh |-> <<>>, returned |-> <<>>, panicked |-> FALSE]

\* the two objects whose statistics getters call other getters, each with
\* its sync.RWMutex free, no getter under way and no writer
Objects == {"halving", "fees"}
NewRWMutex ==
    [readers |-> 0, writer |-> "none", waiting |-> "none",
     getter |-> [pc |-> "idle", nested |-> 0], returns |-> 0, writes |-> 0]

RestInit ==
    /\ TokenInit
    /\ dr = [t \in Callers |-> NoLoopVars]
    /\ evm = NewEVM
    /\ rw = [o \in Objects |-> NewRWMutex]

Init ==
    /\ EngineInit
    /\ quorum = NoQuorum
    /\ HalvingInit
    /\ FeesInit
    /\ RestInit

\* the roster operations, with every input
NextRoster ==
    \/ \E a \in Addrs, s \in StakeIn : AddValidator(a, s) /\ UNCHANGED auxVars
    \/ \E a \in Addrs : RemoveValidator(a) /\ UNCHANGED auxVars
    \/ \E a \in Addrs, r \in Reasons, p \in PenaltyIn : SlashValidator(a, r, p) /\ UNCHANGED auxVars

\* the blocks a caller can hand to CommitBlock or FinalizeBlock
CallerBlocks == PeerBlocks \cup {CurrentBlock[i] : i \in 1 .. Len(CurrentBlock)}

\* every operation, with every input
Next ==
    \/ NextRoster
    \/ Start /\ UNCHANGED auxVars
    \/ \E h \in HeightIn, now \in 0 .. MaxClock : ProduceBlock(h, now) /\ UNCHANGED auxVars
    \/ \E b \in CallerBlocks : CommitBlock(b) /\ UNCHANGED auxVars
    \/ \E h \in HeightIn, a \in Addrs : RecordFinalityVote(h, a) /\ UNCHANGED auxVars
    \/ \E t \in Callers, b \in CallerBlocks : FinalizeCall(t, b) /\ UNCHANGED auxVars
    \/ \E t \in Callers : FinalizeCheck(t) /\ UNCHANGED auxVars
    \/ \E t \in Callers : FinalizeRewards(t) /\ UNCHANGED auxVars
    \/ \E t \in Callers : FinalizeReturn(t) /\ UNCHANGED auxVars
    \/ Tick /\ UNCHANGED auxVars

\* a roster that only grows: validators join in address order with the
\* minimum stake
GrowRoster == vsLen < EngineValidators /\ AddValidator(vsLen + 1, MinStake)

\* the history and the chain: one caller at a time starts the engine, produces
\* and commits blocks, and finalizes a block for which votes were recorded; the
\* clock stands still
NextChain ==
    \/ GrowRoster /\ UNCHANGED auxVars
    \/ Start /\ UNCHANGED auxVars
    \/ \E h \in 0 .. MaxHeight : ProduceBlock(h, clock) /\ UNCHANGED auxVars
    \/ \E b \in CallerBlocks : CommitBlock(b) /\ UNCHANGED auxVars
    \/ \E h \in 0 .. MaxHeight : vsLen > 0 /\ RecordFinalityVote(h, 1) /\ UNCHANGED auxVars
    \/ \E b \in CallerBlocks : InFlight = {} /\ FinalizeCall(1, b) /\ UNCHANGED auxVars
    \/ FinalizeCheck(1) /\ UNCHANGED auxVars
    \/ FinalizeRewards(1) /\ UNCHANGED auxVars
    \/ FinalizeReturn(1) /\ UNCHANGED auxVars

\* the history alone: the engine is started, blocks are produced and one
\* caller finalizes peers' blocks, which is every operation that writes
\* c.PoHSequence
NextHistory ==
    \/ GrowRoster /\ UNCHANGED auxVars
    \/ Start /\ UNCHANGED auxVars
    \/ \E h \in 0 .. MaxHeight : ProduceBlock(h, clock) /\ UNCHANGED auxVars
    \/ vsLen > 0 /\ RecordFinalityVote(0, 1) /\ UNCHANGED auxVars
    \/ \E h \in 0 .. MaxHeight : InFlight = {} /\ FinalizeCall(1, PeerBlock(h, TRUE)) /\ UNCHANGED auxVars
    \/ FinalizeCheck(1) /\ UNCHANGED auxVars
    \/ FinalizeRewards(1) /\ UNCHANGED auxVars
    \/ FinalizeReturn(1) /\ UNCHANGED auxVars

\* finality: votes from roster validators arrive for the heights 0 .. MaxHeight
\* and several callers finalize the peers' blocks for these heights
NextFinality ==
    \/ GrowRoster /\ UNCHANGED auxVars
    \/ Start /\ UNCHANGED auxVars
    \/ \E h \in 0 .. MaxHeight, a \in RosterAddrs : RecordFinalityVote(h, a) /\ UNCHANGED auxVars
    \/ \E t \in Callers, h \in 0 .. MaxHeight : FinalizeCall(t, PeerBlock(h, TRUE)) /\ UNCHANGED auxVars
    \/ \E t \in Callers : FinalizeCheck(t) /\ UNCHANGED auxVars
    \/ \E t \in Callers : FinalizeRewards(t) /\ UNCHANGED auxVars
    \/ \E t \in Callers : FinalizeReturn(t) /\ UNCHANGED auxVars

Spec == Init /\ [][Next]_vars

SpecRoster == Init /\ [][NextRoster]_vars

SpecChain == Init /\ [][NextChain]_vars
SpecFinality == Init /\ [][NextFinality]_vars
SpecHistory == Init /\ [][NextHistory]_vars

\* ---- history chain ---------------------------------------------------------------
\* C1: in every reachable state every history entry after the first carries its
\* predecessor's digest as previous digest and its predecessor's index plus one
C1_HistoryLinked ==
    \A i \in 2 .. Len(PoHSequence) :
        /\ PoHSequence[i].PreviousHash = PoHSequence[i - 1].Hash
        /\ PoHSequence[i].Index = PoHSequence[i - 1].Index + 1

\* ---- finality --------------------------------------------------------------------
\* C2: the signature check of FinalizeBlock passes exactly when the number of
\* distinct validators that voted for the height is at least floor(2n/3) + 1,
\* n the roster size at the check, and a failing call reports that number and
\* that requirement
C2_QuorumIffDistinct ==
    [][\A t \in Callers :
          FinalizeCheck(t) =>
              LET distinct == Cardinality(Distinct(FinalityVotes[fin[t].block.Height]))
                  required == ((2 * vsLen) \div 3) + 1
              IN /\ (pc'[t] = "rewards") <=> (distinct >= required)
                 /\ pc'[t] = "idle" =>
                        /\ ret'[t].status = ErrInsufficientSignatures
                        /\ ret'[t].have = distinct
                        /\ ret'[t].need = required]_vars

\* C3: for every height the reward distribution has run at most once
C3_RewardsOncePerHeight == \A h \in HeightIn : rewardRuns[h] <= 1

\* C4: for every height the tally FinalizeBlock uses is the number of distinct
\* validator identities recorded for that height
C4_TallyCountsDistinct ==
    \A h \in HeightIn :
        voteTally(FinalityVotes[h]) = Cardinality(Distinct(FinalityVotes[h]))

\* C5: of two FinalizeBlock calls for the same height that overlap in time, at
\* most one returns success
C5_OneFinalizerWins ==
    \A t \in Callers, u \in Callers :
        ~ /\ t # u
          /\ ret[t].status = NoErr
          /\ ret[u].status = NoErr
          /\ ret[t].height = ret[u].height
          /\ u \in ret[t].rivals
          /\ t \in ret[u].rivals

\* ---- committees ------------------------------------------------------------------
\* number of places an address takes in the committees
CommitteePlaces(a) ==
    Cardinality({<<c, k>> \in (1 .. Len(Committees)) \X (1 .. Len(vsArray)) :
                     /\ k > Committees[c].lo
                     /\ k <= Committees[c].hi
                     /\ vsArray[k].Address = a})

\* the committees hold every roster validator once and nobody else
CommitteesPartitionRoster ==
    \A a \in Addrs : CommitteePlaces(a) = (IF a \in RosterAddrs THEN 1 ELSE 0)

\* C6: after a successful AddValidator nobody outside the roster is in a
\* committee and every roster validator is in exactly one committee (or in
\* none while the roster is smaller than the shard count)
C6_AddKeepsPartition ==
    (last.op = "AddValidator" /\ last.err = NoErr) =>
        \A a \in Addrs :
            IF a \in RosterAddrs
            THEN \/ CommitteePlaces(a) = 1
                 \/ CommitteePlaces(a) = 0 /\ vsLen < ShardCount
            ELSE CommitteePlaces(a) = 0

\* C7: after a successful RemoveValidator(a) no committee contains a, also when
\* a was the last validator of the roster
C7_RemovedLeavesCommittees ==
    (last.op = "RemoveValidator" /\ last.err = NoErr) =>
        CommitteePlaces(last.address) = 0

\* stake of the roster validator with this address
StakeOf(a) == ValidatorSet[FindValidator(a)].Stake

\* C8: SlashValidator of a roster validator with a penalty above its stake
\* returns success, records the penalty clamped to the stake, brings the stake
\* to exactly 0 and evicts the validator
C8_SlashClampsToZero ==
    [][\A a \in Addrs, r \in Reasons, p \in PenaltyIn :
          (a \in RosterAddrs /\ p > StakeOf(a) /\ SlashValidator(a, r, p)) =>
              /\ last'.err = NoErr
              /\ last'.penalty = StakeOf(a)
              /\ last'.stakeAfter = 0
              /\ a \notin RosterAddrs']_vars

\* a penalty above the stake was applied and the validator is gone
C8_Witness ==
    /\ last.op = "SlashValidator"
    /\ last.err = NoErr
    /\ last.arg > last.stakeBefore
    /\ last.stakeBefore >= MinStake
    /\ last.address \notin RosterAddrs

\* C9: right after a SlashValidator that brought the stake below MinStake the
\* committees are the partition of the roster without the evicted validator
C9_EvictionReshuffles ==
    (last.op = "SlashValidator" /\ last.err = NoErr /\ last.stakeAfter < MinStake) =>
        /\ CommitteePlaces(last.address) = 0
        /\ CommitteesPartitionRoster

\* C10: every roster validator has stake >= MinStake in every reachable state,
\* and AddValidator with a stake below MinStake fails with the stake error and
\* leaves roster and committees as they were
C10_RosterAtLeastMinStake ==
    /\ [](\A i \in 1 .. vsLen : ValidatorSet[i].Stake >= MinStake)
    /\ [][\A a \in Addrs, s \in StakeIn :
             (s < MinStake /\ AddValidator(a, s)) =>
                 /\ last'.err = ErrStakeBelowMinimum
                 /\ UNCHANGED rosterVars]_vars

\* a validator slashed down to the minimum is still in the roster when an
\* AddValidator below the minimum has just been refused
C10_Witness ==
    /\ last.op = "AddValidator"
    /\ last.err = ErrStakeBelowMinimum
    /\ \E i \in 1 .. vsLen : ValidatorSet[i].Slashed /\ ValidatorSet[i].Stake = MinStake

TailEntry(seq) == seq[Len(seq)]

\* C12: a ProduceBlock whose height has no entry yet and is not the tail's
\* index plus one fails with the discontinuity error and appends nothing
C12_SkippedHeightRefused ==
    [][\A h \in 0 .. MaxHeight :
          (/\ PoHSequence # <<>>
           /\ h >= Len(PoHSequence)
           /\ h # TailEntry(PoHSequence).Index + 1
           /\ ProduceBlock(h, clock)) =>
              /\ last'.err = "discontinuity"
              /\ PoHSequence' = PoHSequence]_vars

\* C13: a ProduceBlock whose height already has an entry gets that entry, the
\* entry's index is the height, and the history is left as it was
C13_ExistingEntryReturned ==
    [][\A h \in 0 .. MaxHeight :
          (h < Len(PoHSequence) /\ ProduceBlock(h, clock)) =>
              LET entry == getPoHEntry(PoHSequence, h, clock, clock)
              IN /\ entry = PoHSequence[h + 1]
                 /\ entry.Index = h
                 /\ PoHSequence' = PoHSequence]_vars

\* the genesis entry: index 0, the fixed digest, no previous digest
IsGenesis(entry) ==
    /\ entry.Index = 0
    /\ entry.Hash = GenesisHash
    /\ entry.PreviousHash = EmptyHash

\* C14: an initialized history has its genesis entry first and no genesis
\* entry anywhere else
C14_OneGenesis ==
    PoHSequence # <<>> =>
        /\ IsGenesis(PoHSequence[1])
        /\ \A i \in 2 .. Len(PoHSequence) : ~IsGenesis(PoHSequence[i])

\* C15: every step leaves the history it found as a prefix of the new history
C15_HistoryAppendOnly ==
    [][/\ Len(PoHSequence') >= Len(PoHSequence)
       /\ SubSeq(PoHSequence', 1, Len(PoHSequence)) = PoHSequence]_vars

\* the history was initialized and then extended up to the bound
C15_Witness ==
    /\ Len(PoHSequence) = MaxPoH
    /\ last.op = "ProduceBlock"
    /\ ~IsGenesis(TailEntry(PoHSequence))

C17_ProduceIdempotent ==
    [][\A h \in 0 .. MaxHeight :
          ProduceBlock(h, clock) =>
              /\ last'.err = NoErr =>
                     /\ CurrentHeight' = h
                     /\ CurrentBlock' # <<>>
                     /\ CurrentBlock'[1].Height = h
              /\ (last.op = "ProduceBlock" /\ last.arg = h) =>
                     /\ PoHSequence' = PoHSequence
                     /\ last'.address = last.address]_vars

\* ---- block lifecycle ------------------------------------------------------------
\* the block's extension decodes to a proof whose entry has the digest and the
\* previous digest of an entry of the engine's history
ProofConsistent(block) ==
    /\ Len(block.Extensions) > 0
    /\ Len(block.Extensions[1].Bytes) > 0
    /\ \E i \in 1 .. Len(PoHSequence) :
           /\ PoHSequence[i].Hash = block.Extensions[1].Bytes[1].Entry.Hash
           /\ PoHSequence[i].PreviousHash = block.Extensions[1].Bytes[1].Entry.PreviousHash

\* C18: CommitBlock fails with the missing-proof error on a block without
\* proof and with another error on a block whose proof is not consistent with
\* the history, creating no commit record in either case; a block with a
\* consistent proof gets a commit record with no signatures
C18_CommitChecksProof ==
    [][\A b \in CallerBlocks :
          CommitBlock(b) =>
              IF Len(b.Extensions) = 0
              THEN last'.err = ErrMissingProof /\ Commit' = Commit
              ELSE IF ~ProofConsistent(b)
              THEN last'.err \notin {NoErr, ErrMissingProof} /\ Commit' = Commit
              ELSE /\ last'.err = NoErr
                   /\ Commit' = <<[BlockID |-> HeaderHash(b), Signatures |-> <<>>]>>]_vars

\* C19: a FinalizeBlock call returns success only for a block that was
\* produced and has the commit record for its height
C19_FinalizedWasCommitted ==
    \A t \in Callers :
        ret[t].status = NoErr =>
            /\ CurrentBlock # <<>>
            /\ Commit # <<>>
            /\ Commit[1].BlockID[2] = ret[t].height

\* ---- determinism ---------------------------------------------------------------
\* C20: the digest of the entry a ProduceBlock appends is the same whatever
\* the clock reads during the call, so two engines given the same operations
\* hold the same history digests
C20_HistoryIgnoresClock ==
    [][\A h \in 0 .. MaxHeight :
          (ProduceBlock(h, clock) /\ Len(PoHSequence') > Len(PoHSequence)) =>
              \A now \in 0 .. MaxClock :
                  TailEntry(getPoHEntrySeq(PoHSequence, h, now, now)).Hash
                      = TailEntry(PoHSequence').Hash]_vars

\* ---- the exclusive region c.mu ---------------------------------------------------
Free == "free"
\* the operations that open with c.mu.Lock(); defer c.mu.Unlock()
MuOps == {"Start", "AddValidator", "RemoveValidator", "ProduceBlock", "CommitBlock",
          "SlashValidator"}

\* c.mu.Lock() of operation op: the caller is inside the critical section
LockMu(op) ==
    /\ ~panicked
    /\ mu = Free
    /\ mu' = op
    /\ UNCHANGED <<rosterVars, chainVars, finVars, last, clock, panicked, loops,
                   sideVars>>

\* the body of operation op and its deferred c.mu.Unlock()
Holding(op, Body) ==
    /\ mu = op
    /\ Body
    /\ mu' = Free
    /\ UNCHANGED <<loops, sideVars>>

\* the operations under c.mu step by step (lock, then body and unlock) beside
\* one caller of FinalizeBlock, which takes c.muFinality only
NextLocks ==
    \/ \E op \in MuOps : LockMu(op)
    \/ Holding("Start", Start)
    \/ Holding("AddValidator", GrowRoster)
    \/ \E a \in RosterAddrs : Holding("RemoveValidator", RemoveValidator(a))
    \/ \E a \in RosterAddrs, r \in Reasons :
           Holding("SlashValidator", SlashValidator(a, r, 1))
    \/ Holding("ProduceBlock", ProduceBlock(0, clock))
    \/ Holding("CommitBlock", CommitBlock(PeerBlock(0, TRUE)))
    \/ \E a \in RosterAddrs : RecordFinalityVote(0, a) /\ UNCHANGED auxVars
    \/ InFlight = {} /\ FinalizeCall(1, PeerBlock(0, TRUE)) /\ UNCHANGED auxVars
    \/ FinalizeCheck(1) /\ UNCHANGED auxVars
    \/ FinalizeRewards(1) /\ UNCHANGED auxVars
    \/ FinalizeReturn(1) /\ UNCHANGED auxVars

SpecLocks == Init /\ [][NextLocks]_vars

\* C21: FinalizeBlock reads the roster size, credits the rewards and appends to
\* the history only while no operation is inside the critical section of c.mu
C21_FinalizeInsideRegion ==
    [][\A t \in Callers :
           (FinalizeCheck(t) \/ FinalizeRewards(t) \/ FinalizeReturn(t))
               => mu = Free]_vars

\* ---- the block production driver --------------------------------------------------
\* one goroutine per Start call (go c.blockProductionLoop()); goroutine i makes
\* its FinalizeBlock calls as caller i
MaxLoops == NumCallers
NewLoop == [pc |-> "wait", height |-> 0, block |-> <<>>]

\* Start, with the goroutine it spawns
StartLoop ==
    /\ Len(loops) < MaxLoops
    /\ mu = Free
    /\ Start
    /\ loops' = Append(loops, NewLoop)
    /\ UNCHANGED <<mu, sideVars>>

\* the goroutines that are between a tick and the end of the cycle it began
InCycle == {i \in 1 .. Len(loops) : loops[i].pc # "wait"}

\* one step of goroutine i of blockProductionLoop
LoopStep(i) ==
    LET l == loops[i]
        EndCycle == [loops EXCEPT ![i] = NewLoop]
    IN /\ ~panicked
       /\ UNCHANGED <<mu, sideVars>>
       /\ CASE l.pc = "wait" ->
                 \* case <-ticker.C
                 /\ loops' = [loops EXCEPT ![i].pc = "height"]
                 /\ UNCHANGED <<rosterVars, chainVars, finVars, last, clock, panicked>>
            [] l.pc = "height" ->
                 \* c.mu.Lock(); height := c.CurrentHeight + 1; c.mu.Unlock()
                 /\ mu = Free
                 /\ loops' = [loops EXCEPT ![i].pc = "produce",
                                           ![i].height = CurrentHeight + 1]
                 /\ UNCHANGED <<rosterVars, chainVars, finVars, last, clock, panicked>>
            [] l.pc = "produce" ->
                 /\ mu = Free
                 /\ ProduceBlock(l.height, clock)
                 /\ loops' = IF last'.err = NoErr
                             THEN [loops EXCEPT ![i].pc = "commit",
                                                ![i].block = CurrentBlock']
                             ELSE EndCycle
            [] l.pc = "commit" ->
                 /\ mu = Free
                 /\ CommitBlock(l.block[1])
                 /\ loops' = IF last'.err = NoErr
                             THEN [loops EXCEPT ![i].pc = "finalize"]
                             ELSE EndCycle
            [] l.pc = "finalize" ->
                 /\ FinalizeCall(i, l.block[1])
                 /\ loops' = [loops EXCEPT ![i].pc = "finalizing"]
            [] l.pc = "finalizing" ->
                 IF pc[i] = "idle"
                 THEN /\ loops' = EndCycle
                      /\ UNCHANGED <<rosterVars, chainVars, finVars, last, clock, panicked>>
                 ELSE /\ (FinalizeCheck(i) \/ FinalizeRewards(i) \/ FinalizeReturn(i))
                      /\ UNCHANGED loops

\* the engine is started any number of times while validators join and votes
\* arrive; the goroutines of the Start calls run freely
NextDriver ==
    \/ mu = Free /\ GrowRoster /\ UNCHANGED auxVars
    \/ StartLoop
    \/ \E i \in 1 .. Len(loops) : LoopStep(i)
    \/ vsLen > 0 /\ RecordFinalityVote(0, 1) /\ UNCHANGED auxVars
    \/ Tick /\ UNCHANGED auxVars

SpecDriver == Init /\ [][NextDriver]_vars

\* C22: at most one goroutine is inside a production cycle, and a goroutine
\* about to call ProduceBlock holds the height that is still c.CurrentHeight + 1
C22_OneCycleInFlight ==
    /\ Cardinality(InCycle) <= 1
    /\ \A i \in 1 .. Len(loops) :
           loops[i].pc = "produce" => loops[i].height = CurrentHeight + 1

\* ---- reward shares ------------------------------------------------------------------
\* validators join with the minimum stake or more, votes arrive for height 0
\* and one caller finalizes a peer's block of that height
GrowStaked ==
    /\ vsLen < EngineValidators
    /\ \E s \in {MinStake, MinStake + 1} : AddValidator(vsLen + 1, s)

NextRewards ==
    \/ GrowStaked /\ UNCHANGED auxVars
    \/ Start /\ UNCHANGED auxVars
    \/ \E a \in RosterAddrs : RecordFinalityVote(0, a) /\ UNCHANGED auxVars
    \/ InFlight = {} /\ FinalizeCall(1, PeerBlock(0, TRUE)) /\ UNCHANGED auxVars
    \/ FinalizeCheck(1) /\ UNCHANGED auxVars
    \/ FinalizeRewards(1) /\ UNCHANGED auxVars
    \/ FinalizeReturn(1) /\ UNCHANGED auxVars

SpecRewards == Init /\ [][NextRewards]_vars

\* floor(R * stake / total) in integer arithmetic
FloorShare(stake, total) == (TotalReward * stake) \div total

\* C23: a distributeRewards run credits every roster validator exactly
\* floor(R * stake / total stake), so the credits sum to at most R and fall
\* short of R by less than the roster size
C23_FloorShares ==
    [][\A t \in Callers : FinalizeRewards(t) =>
           LET total == getTotalStake(ValidatorSet)
               Credit(k) == (vsArray'[k].Reward - vsArray[k].Reward) % UintMod
               Sum[k \in 0 .. vsLen] == IF k = 0 THEN 0 ELSE Sum[k - 1] + Credit(k)
           IN /\ \A k \in 1 .. vsLen :
                      Credit(k) = FloorShare(vsArray[k].Stake, total)
              /\ Sum[vsLen] <= TotalReward
              /\ TotalReward - Sum[vsLen] < vsLen]_vars

\* ---- the four-validator scenario ------------------------------------------------------
ScenarioBlocks ==
    {PeerBlock(ScenarioHeight, TRUE)} \cup {CurrentBlock[i] : i \in 1 .. Len(CurrentBlock)}

\* the votes of V1, V2, ... for the scenario's height, in this order
ScenarioVote ==
    LET a == Len(FinalityVotes[ScenarioHeight]) + 1
    IN a <= ScenarioVotes /\ appendVote(ScenarioHeight, a)

\* validators V1 .. V4 join with equal stake; then a block is produced at the
\* scenario's height, votes are recorded for it and it is finalized
NextScenario ==
    \/ vsLen < ScenarioValidators /\ AddValidator(vsLen + 1, MinStake) /\ UNCHANGED auxVars
    \/ Start /\ UNCHANGED auxVars
    \/ vsLen = ScenarioValidators /\ ProduceBlock(ScenarioHeight, clock) /\ UNCHANGED auxVars
    \/ vsLen = ScenarioValidators /\ ScenarioVote /\ UNCHANGED auxVars
    \/ \E b \in ScenarioBlocks :
           vsLen = ScenarioValidators /\ InFlight = {} /\ FinalizeCall(1, b) /\ UNCHANGED auxVars
    \/ FinalizeCheck(1) /\ UNCHANGED auxVars
    \/ FinalizeRewards(1) /\ UNCHANGED auxVars
    \/ FinalizeReturn(1) /\ UNCHANGED auxVars

SpecScenario == Init /\ [][NextScenario]_vars

\* C24: with four validators of equal stake, ProduceBlock at the scenario's
\* height succeeds; a FinalizeBlock for that height returns nil when the votes
\* of V1, V2, V3 are recorded, and InsufficientSignatures(2, 3) when only those
\* of V1 and V2 are
C24_Scenario ==
    [][/\ (vsLen = ScenarioValidators /\ ProduceBlock(ScenarioHeight, clock))
              => last'.err = NoErr
       /\ (FinalizeCheck(1) /\ Len(FinalityVotes[ScenarioHeight]) = ScenarioVotes)
              => pc'[1] = "rewards"
       /\ FinalizeReturn(1) => ret'[1].status = NoErr
       /\ (FinalizeCheck(1) /\ Len(FinalityVotes[ScenarioHeight]) = ScenarioVotes - 1)
              => /\ ret'[1].status = ErrInsufficientSignatures
                 /\ ret'[1].have = ScenarioVotes - 1
                 /\ ret'[1].need = ScenarioVotes]_vars

\* ---- the quorum size ----------------------------------------------------------------
\* a roster of n validators and two sets of voters among them
QuorumInputs ==
    UNION {{[n |-> n, first |-> A, second |-> B, required |-> 0] :
                A \in SUBSET (1 .. n), B \in SUBSET (1 .. n)} : n \in 1 .. QuorumRoster}

InitQuorum ==
    /\ EngineInit
    /\ quorum \in QuorumInputs
    /\ HalvingInit
    /\ FeesInit
    /\ RestInit

\* FinalizeBlock computes the quorum for the roster size
ComputeRequired ==
    /\ quorum.required = 0
    /\ quorum' = [quorum EXCEPT !.required = requiredSignatures(quorum.n)]
    /\ UNCHANGED <<engineVars, halvingVars, feeVars, restVars>>

NextQuorum == ComputeRequired

SpecQuorum == InitQuorum /\ [][NextQuorum]_vars

\* the number of Byzantine validators a roster of n is said to tolerate
Tolerated(n) == (n - 1) \div 3

\* C25: the quorum computed for a roster of n >= 1 validators is reached by the
\* n - f honest validators alone, and two vote sets of quorum size share at
\* least f + 1 validators, f being floor((n - 1) / 3)
C25_QuorumTolerates ==
    quorum.required # 0 =>
        /\ quorum.n - Tolerated(quorum.n) >= quorum.required
        /\ (/\ Cardinality(quorum.first) = quorum.required
            /\ Cardinality(quorum.second) = quorum.required)
               => Cardinality(quorum.first \cap quorum.second) >= Tolerated(quorum.n) + 1

\* two quorums of a roster of four or more that share exactly f + 1 validators
C25_Witness ==
    /\ quorum.required # 0
    /\ Tolerated(quorum.n) >= 1
    /\ quorum.n - Tolerated(quorum.n) = quorum.required
    /\ Cardinality(quorum.first) = quorum.required
    /\ Cardinality(quorum.second) = quorum.required
    /\ Cardinality(quorum.first \cap quorum.second) = Tolerated(quorum.n) + 1

\* ---- retrying FinalizeBlock -------------------------------------------------------------
\* C26: a FinalizeBlock call that returns the insufficient-signatures error
\* leaves roster, history, pending block, votes and rewards as they were, and
\* after a call for a height was refused, a call for that height made once
\* enough distinct validators have voted returns nil
C26_RefusedThenRetried ==
    [][\A t \in Callers :
           /\ (FinalizeCheck(t) /\ ret'[t].status = ErrInsufficientSignatures)
                  => UNCHANGED <<rosterVars, chainVars, FinalityVotes, rewardRuns>>
           /\ (/\ FinalizeReturn(t)
               /\ \E u \in Callers :
                      /\ ret[u].status = ErrInsufficientSignatures
                      /\ ret[u].height = fin[t].block.Height
               /\ Cardinality(Distinct(FinalityVotes[fin[t].block.Height]))
                      >= requiredSignatures(vsLen))
                  => ret'[t].status = NoErr]_vars

\* ---- emission halving (package halving) -------------------------------------------
\* Units.  The pool (2 * 10^26 wei), the initial reward (10^21 wei), the
\* halving interval (7889400 blocks) and the history limit (10000 records) are
\* scaled.  HalvingFactor is 0.95 as in New(); the rounding of float64 (2^-53)
\* is far below the 5% step and is not modelled, the truncation of uint64(...)
\* is.  A reward record is modelled without its validator and timestamp.
FactorNum == 19
FactorDen == 20
ErrPoolExhausted == "reward pool exhausted"

\* uint64(float64(x) * num / den)
Scale(x, num, den) == (x * num) \div den

\* Halving.Start: phase 0 is appended and made current
HalvingStart ==
    /\ ~panicked
    /\ Len(halving.phases) < MaxPhases
    /\ halving' = [halving EXCEPT
           !.phases = Append(@, [Phase |-> 0, StartBlock |-> 0,
                                 CurrentReward |-> InitialReward,
                                 TotalDistributed |-> 0,
                                 RemainingPool |-> TotalPool]),
           !.currentPhase = 0,
           !.currentBlock = 0]
    /\ hlast' = [NoReward EXCEPT !.op = "Start"]
    /\ UNCHANGED <<engineVars, quorum, feeVars, restVars>>

\* Halving.SetBlockNumber
SetBlockNumber(blockNumber) ==
    /\ ~panicked
    /\ halving' = [halving EXCEPT !.currentBlock = blockNumber]
    /\ hlast' = [NoReward EXCEPT !.op = "SetBlockNumber", !.blockNumber = blockNumber]
    /\ UNCHANGED <<engineVars, quorum, feeVars, restVars>>

\* Halving.shouldHalve (its argument blockNumber is not used); the phase read
\* in the second test exists whenever currentPhase > 0
shouldHalve(h) ==
    \/ h.currentBlock >= Len(h.phases) * HalvingInterval
    \/ /\ h.currentPhase > 0
       /\ h.currentBlock - h.phases[h.currentPhase + 1].StartBlock >= HalvingInterval

\* Halving.performHalving: n := float64(h.currentPhase), read before the
\* increment
performHalving(h, blockNumber) ==
    LET n == h.currentPhase
        newReward == Scale(InitialReward, FactorNum ^ n, FactorDen ^ n)
    IN [h EXCEPT
           !.phases = Append(@, [Phase |-> h.currentPhase + 1,
                                 StartBlock |-> blockNumber,
                                 CurrentReward |-> newReward,
                                 TotalDistributed |-> 0,
                                 RemainingPool |-> h.rewardPool]),
           !.currentPhase = @ + 1]

\* append(h.rewardHistory, record), trimmed from the front past the limit
recordReward(history, record) ==
    LET all == Append(history, record)
    IN IF Len(all) > HistoryLimit THEN SubSeq(all, 2, Len(all)) ELSE all

\* Halving.CalculateReward
CalculateReward(blockNumber) ==
    LET halve == shouldHalve(halving)
        \* h.phases[h.currentPhase] in performHalving on an instance without phases
        noPhase == halving.phases = <<>>
        h == IF halve /\ ~noPhase THEN performHalving(halving, blockNumber) ELSE halving
        phase == h.phases[h.currentPhase + 1]
        adjusted == Scale(phase.CurrentReward, h.adjustmentFactor.num,
                          h.adjustmentFactor.den)
        reward == IF adjusted > h.rewardPool THEN h.rewardPool ELSE adjusted
        exhausted == adjusted > h.rewardPool /\ h.rewardPool = 0
        paid == [h EXCEPT
                    !.rewardPool = (@ - reward) % UintMod,
                    !.distributed = (@ + reward) % UintMod,
                    !.phases[h.currentPhase + 1].TotalDistributed = (@ + reward) % UintMod,
                    !.phases[h.currentPhase + 1].RemainingPool = (@ - reward) % UintMod,
                    !.rewardHistory = recordReward(@, [BlockNumber |-> blockNumber,
                                                       Amount |-> reward,
                                                       Phase |-> h.currentPhase])]
        Ret(err, amount) == [op |-> "CalculateReward", err |-> err,
                             blockNumber |-> blockNumber, reward |-> amount]
    IN /\ ~panicked
       /\ halve => Len(halving.phases) < MaxPhases
       /\ UNCHANGED <<rosterVars, chainVars, finVars, last, clock, driverVars, quorum,
                    feeVars, restVars>>
       /\ IF noPhase
          THEN /\ panicked' = TRUE
               /\ hlast' = Ret(ErrPanic, 0)
               /\ UNCHANGED halving
          ELSE /\ UNCHANGED panicked
               /\ IF exhausted
                  THEN /\ halving' = h
                       /\ hlast' = Ret(ErrPoolExhausted, 0)
                  ELSE /\ halving' = paid
                       /\ hlast' = Ret(NoErr, reward)

\* the block numbers handed to the instance: inside phase 0 and at the next
\* two interval boundaries
BlockNumbers == {0, HalvingInterval, 2 * HalvingInterval}

NextHalving ==
    \/ HalvingStart
    \/ \E b \in BlockNumbers : SetBlockNumber(b)
    \/ \E b \in BlockNumbers : CalculateReward(b)

SpecHalving == Init /\ [][NextHalving]_vars

\* the phase the instance treats as current (none before Start)
CurrentPhase == halving.phases[halving.currentPhase + 1]

\* C27: the pool and the distributed total always add up to TotalPool and the
\* current phase's RemainingPool equals the pool; a reward returned by
\* CalculateReward is at most the pool before the call; with an empty pool
\* CalculateReward returns the pool-exhausted error and leaves pool,
\* distributed total and reward history unchanged
C27_PoolAccounting ==
    /\ [](/\ halving.rewardPool + halving.distributed = TotalPool
          /\ halving.phases # <<>> => CurrentPhase.RemainingPool = halving.rewardPool)
    /\ [][\A b \in BlockNumbers : CalculateReward(b) =>
              /\ hlast'.err = NoErr => hlast'.reward <= halving.rewardPool
              /\ (halving.rewardPool = 0 /\ halving.phases # <<>>) =>
                     /\ hlast'.err = ErrPoolExhausted
                     /\ halving'.rewardPool = halving.rewardPool
                     /\ halving'.distributed = halving.distributed
                     /\ halving'.rewardHistory = halving.rewardHistory]_vars

\* C28: a CalculateReward call serves the phase its block number lies in; a
\* halving it performs opens a phase whose per-block reward is strictly lower
\* than that of the phase before, and a reward paid in a later phase is
\* strictly smaller than the reward of phase 0
C28_HalvingReduces ==
    [][\A b \in BlockNumbers : (CalculateReward(b) /\ hlast'.err # ErrPanic) =>
           /\ halving'.currentPhase = b \div HalvingInterval
           /\ Len(halving'.phases) > Len(halving.phases) =>
                  halving'.phases[Len(halving'.phases)].CurrentReward
                      < CurrentPhase.CurrentReward
           /\ (hlast'.err = NoErr /\ halving'.currentPhase > 0) =>
                  hlast'.reward < InitialReward]_vars

\* ---- transaction fees (package fees) -----------------------------------------------
\* Units.  The default base fee (10^14 wei), maximal tip (10^12) and maximal
\* fee (10^13) are scaled and keep their order; uint64 wraps at FeeMod.
FeeMod == 2 ^ FeeBits
ErrNotRunning == "fee system not running"
ErrFeeExceedsMaximum == "fee exceeds maximum"
ErrBaseFeeZero == "base fee cannot be zero"
ErrBurnPercent == "burn percent must be 0-100"
ErrMinTip == "min tip cannot exceed max tip"

TxTypes == {"transfer", "contract_call", "contract_deploy", "nft_mint", "defi_swap",
            "other"}
GasLimits == {21000}
TipIn == {0, 1, 3}
\* the configurations handed to SetFeeConfig
ConfigIn == [BaseFee : {0, 2, 13}, BurnPercent : {BurnPercent, 101}, MinTip : {0, 1},
             MaxTip : {0, 2}, PriorityFee : {0, 1}, MaxFee : {DefaultMaxFee, 100}]

FeeResult(op, err) == [NoFeeResult EXCEPT !.op = op, !.err = err]

\* Fees.Start
FeesStart ==
    /\ fees' = [fees EXCEPT !.running = TRUE]
    /\ flast' = FeeResult("Start", NoErr)
    /\ UNCHANGED <<engineVars, quorum, halvingVars, restVars>>

\* Fees.Stop
FeesStop ==
    /\ fees' = [fees EXCEPT !.running = FALSE]
    /\ flast' = FeeResult("Stop", NoErr)
    /\ UNCHANGED <<engineVars, quorum, halvingVars, restVars>>

\* Fees.SetFeeConfig
SetFeeConfig(config) ==
    LET err == IF config.BaseFee = 0 THEN ErrBaseFeeZero
               ELSE IF config.BurnPercent < 0 \/ config.BurnPercent > 100
               THEN ErrBurnPercent
               ELSE IF config.MinTip > config.MaxTip THEN ErrMinTip
               ELSE NoErr
    IN /\ fees' = IF err = NoErr THEN [fees EXCEPT !.config = config] ELSE fees
       /\ flast' = FeeResult("SetFeeConfig", err)
       /\ UNCHANGED <<engineVars, quorum, halvingVars, restVars>>

\* the transaction type's multiple of the base fee
typeFactor(txType) ==
    CASE txType = "contract_deploy" -> 3
      [] txType = "contract_call" -> 2
      [] txType = "nft_mint" -> 2
      [] txType = "defi_swap" -> 5
      [] OTHER -> 1

\* uint64(float64(baseFee) * float64(f.config.BurnPercent) / 100.0)
burnAmount(baseFee, percent) ==
    LET fb == Float(FeeMantissaBits, baseFee, 1)
        fp == Float(FeeMantissaBits, percent, 1)
        product == Float(FeeMantissaBits, fb.num * fp.num, fb.den * fp.den)
        hundred == Float(FeeMantissaBits, 100, 1)
        quotient == Float(FeeMantissaBits, product.num * hundred.den,
                          product.den * hundred.num)
    IN quotient.num \div quotient.den

\* Fees.CalculateFee (gasLimit is not used)
CalculateFee(gasLimit, tipArg, txType) ==
    LET c == fees.config
        low == IF tipArg < c.MinTip THEN c.MinTip ELSE tipArg
        tip == IF low > c.MaxTip THEN c.MaxTip ELSE low
        baseFee == (c.BaseFee * typeFactor(txType)) % FeeMod
        total == (baseFee + tip + c.PriorityFee) % FeeMod
        burned == burnAmount(baseFee, c.BurnPercent)
        fee == [BaseFee |-> baseFee, Tip |-> tip, PriorityFee |-> c.PriorityFee,
                Total |-> total, Burned |-> burned,
                Validator |-> (total - burned) % FeeMod]
        err == IF ~fees.running THEN ErrNotRunning
               ELSE IF total > c.MaxFee THEN ErrFeeExceedsMaximum
               ELSE NoErr
    IN /\ flast' = [op |-> "CalculateFee", err |-> err, tip |-> tipArg,
                    txType |-> txType, fee |-> IF err = NoErr THEN fee ELSE NoFee]
       /\ UNCHANGED <<engineVars, quorum, halvingVars, restVars, fees>>

NextFees ==
    \/ FeesStart
    \/ FeesStop
    \/ \E config \in ConfigIn : SetFeeConfig(config)
    \/ \E g \in GasLimits, tip \in TipIn, ty \in TxTypes : CalculateFee(g, tip, ty)

SpecFees == Init /\ [][NextFees]_vars

\* C29: every fee CalculateFee returns has Burned = BurnPercent percent of its
\* BaseFee, Validator = Total - Burned and Total = BaseFee + Tip + PriorityFee,
\* its Tip lying between MinTip and MaxTip
C29_FeeSplit ==
    [][\A g \in GasLimits, tip \in TipIn, ty \in TxTypes :
           (CalculateFee(g, tip, ty) /\ flast'.err = NoErr) =>
               LET fee == flast'.fee
               IN /\ fee.Burned = (fee.BaseFee * fees.config.BurnPercent) \div 100
                  /\ fee.Validator = fee.Total - fee.Burned
                  /\ fee.Total = fee.BaseFee + fee.Tip + fee.PriorityFee
                  /\ fees.config.MinTip <= fee.Tip
                  /\ fee.Tip <= fees.config.MaxTip]_vars

\* C30: on a started instance with the default configuration the base transfer
\* with no tip gets a fee, of at most the default base fee
C30_DefaultTransferAccepted ==
    [][\A g \in GasLimits :
           (/\ CalculateFee(g, 0, "transfer")
            /\ fees.running
            /\ fees.config = DefaultConfig) =>
               /\ flast'.err = NoErr
               /\ flast'.fee.Total <= DefaultBaseFee]_vars

\* ---- operations on an absent address ------------------------------------------------
\* validators join in address order with any stake, the engine is started, and
\* every address is removed and slashed, in the roster or not
NextAbsent ==
    \/ \E s \in StakeIn : vsLen < MaxValidators /\ AddValidator(vsLen + 1, s) /\ UNCHANGED auxVars
    \/ Start /\ UNCHANGED auxVars
    \/ \E a \in Addrs : RemoveValidator(a) /\ UNCHANGED auxVars
    \/ \E a \in Addrs, r \in Reasons, p \in PenaltyIn : SlashValidator(a, r, p) /\ UNCHANGED auxVars

SpecAbsent == Init /\ [][NextAbsent]_vars

ErrMintingDisabled == "minting is disabled in tokenomics"
ErrSupplyFixed == "ZEN token supply is fixed and immutable"
ErrSupplyNotFixed == "supply must be fixed"
ErrSupplyNotImmutable == "supply must be immutable"
ErrInvalidSupply == "invalid total supply"

AmountIn == {"0", "1", FixedAmount}
Recipients == {1, 2}
BurnReasons == {"fee"}
BurnBlocks == {0, 1}
LimitIn == {-1, 0, 1, BurnEventLimit + 1}

TokenResult(op, err, value) == [op |-> op, err |-> err, value |-> <<value>>]

\* what the calls on the Tokenomics instance leave alone
TokenFrame == UNCHANGED <<engineVars, quorum, halvingVars, feeVars, dr, evm, rw>>

\* a call that only reads the instance
TokenRead(op, err, value) ==
    /\ tlast' = TokenResult(op, err, value)
    /\ UNCHANGED tok
    /\ TokenFrame

ValidateSupply ==
    TokenRead("ValidateSupply",
              IF ~tok.totalSupply.Fixed THEN ErrSupplyNotFixed
              ELSE IF ~tok.totalSupply.Immutable THEN ErrSupplyNotImmutable
              ELSE IF tok.totalSupply.Amount # FixedAmount THEN ErrInvalidSupply
              ELSE NoErr,
              0)

GetTotalSupply == TokenRead("GetTotalSupply", NoErr, tok.totalSupply)

\* the event is appended; beyond the limit the oldest one is dropped
BurnTokens(amount, txHash, reason, block) ==
    LET event == [Amount |-> amount, TxHash |-> txHash, Reason |-> reason,
                  Timestamp |-> clock, Block |-> block]
        events == Append(tok.burnEvents, event)
    IN /\ tok' = [tok EXCEPT !.burnEvents =
                      IF Len(events) > BurnEventLimit THEN Tail(events) ELSE events]
       /\ tlast' = TokenResult("BurnTokens", NoErr, 0)
       /\ TokenFrame

GetBurnEvents(limitArg) ==
    LET n == Len(tok.burnEvents)
        limit == IF limitArg <= 0 \/ limitArg > n THEN n ELSE limitArg
    IN TokenRead("GetBurnEvents", NoErr, SubSeq(tok.burnEvents, n - limit + 1, n))

GetMintingConfig == TokenRead("GetMintingConfig", NoErr, tok.minting)

IsMintingEnabled == TokenRead("IsMintingEnabled", NoErr, tok.minting.Enabled)

\* both branches of AttemptMint return an error
mintErrorWhenEnabled(enabled) == IF enabled THEN ErrMintingDisabled ELSE NoErr

mintError(enabled) == IF enabled THEN ErrMintingDisabled ELSE ErrSupplyFixed

AttemptMint(amount, to) ==
    TokenRead("AttemptMint", mintError(tok.minting.Enabled), 0)

GetCirculatingSupply == TokenRead("GetCirculatingSupply", NoErr, tok.totalSupply.Amount)

\* t.burnEvents[len(t.burnEvents)-1] is out of range while no burn was
\* recorded; the deferred RUnlock runs while the panic unwinds
GetBurnStats ==
    IF tok.burnEvents = <<>>
    THEN TokenRead("GetBurnStats", ErrPanic, 0)
    ELSE TokenRead("GetBurnStats", NoErr,
                   [total_events |-> Len(tok.burnEvents), total_burned |-> 0,
                    last_burn |-> tok.burnEvents[Len(tok.burnEvents)].Timestamp])

IsSupplyFixed == TokenRead("IsSupplyFixed", NoErr, tok.totalSupply.Fixed)

IsSupplyImmutable == TokenRead("IsSupplyImmutable", NoErr, tok.totalSupply.Immutable)

NextTokens ==
    \/ ValidateSupply
    \/ GetTotalSupply
    \/ \E a \in AmountIn, r \in BurnReasons, b \in BurnBlocks : BurnTokens(a, 1, r, b)
    \/ \E l \in LimitIn : GetBurnEvents(l)
    \/ GetMintingConfig
    \/ IsMintingEnabled
    \/ \E a \in AmountIn, to \in Recipients : AttemptMint(a, to)
    \/ GetCirculatingSupply
    \/ GetBurnStats
    \/ IsSupplyFixed
    \/ IsSupplyImmutable
    \/ Tick /\ UNCHANGED auxVars

SpecTokens == Init /\ [][NextTokens]_vars

\* C32: the total supply stays the fixed amount and minting stays disabled
\* whatever is called on the Tokenomics instance, and AttemptMint returns an
\* error for every amount and recipient
C32_SupplyFixed ==
    /\ [](/\ tok.totalSupply = TokenomicsNew.totalSupply
          /\ tok.minting = TokenomicsNew.minting)
    /\ [][\A a \in AmountIn, to \in Recipients :
             AttemptMint(a, to) => /\ tlast'.err # NoErr
                                   /\ UNCHANGED tok]_vars

\* a mint was just refused after burns filled the event list
C32_Witness ==
    /\ tlast.op = "AttemptMint"
    /\ tlast.err = ErrSupplyFixed
    /\ Len(tok.burnEvents) = BurnEventLimit
    /\ \E i \in 1 .. Len(tok.burnEvents) : tok.burnEvents[i].Amount = FixedAmount

\* ---- voting power -------------------------------------------------------------------
\* C33: every roster validator's voting power is the function of its current
\* stake that AddValidator applies, also after a SlashValidator that reduced
\* the stake and left the validator in the roster
C33_PowerFollowsStake ==
    \A i \in 1 .. vsLen : ValidatorSet[i].Power = PowerOf(ValidatorSet[i].Stake)

\* ---- history extension ----------------------------------------------------------------
\* the engine is started and blocks are requested for every height while the
\* clock runs, also between the two readings getPoHEntry makes
NextExtend ==
    \/ Start /\ UNCHANGED auxVars
    \/ \E h \in HeightIn, now \in 0 .. MaxClock : ProduceBlock(h, now) /\ UNCHANGED auxVars
    \/ Tick /\ UNCHANGED auxVars

SpecExtend == Init /\ [][NextExtend]_vars

\* C34: an entry appended by history extension has the index of the tail plus
\* one and its digest is the hash of the previous digest, its own index and
\* its own stored timestamp
C34_EntryVerifiable ==
    [][\A h \in HeightIn, now \in 0 .. MaxClock :
          (ProduceBlock(h, now) /\ Len(PoHSequence') = Len(PoHSequence) + 1) =>
              LET tail == TailEntry(PoHSequence)
                  entry == TailEntry(PoHSequence')
              IN /\ entry.Index = tail.Index + 1
                 /\ entry.PreviousHash = tail.Hash
                 /\ entry.Hash = hashEntry(tail.Hash, entry.Index, entry.Timestamp)]_vars

\* ---- the driven pipeline ----------------------------------------------------------------
\* validators join, the engine is started, the goroutines of
\* blockProductionLoop run and the validators' votes arrive at any time
NextPipeline ==
    \/ mu = Free /\ GrowRoster /\ UNCHANGED auxVars
    \/ StartLoop
    \/ \E i \in 1 .. Len(loops) : LoopStep(i)
    \/ \E h \in 1 .. MaxHeight, a \in RosterAddrs : RecordFinalityVote(h, a) /\ UNCHANGED auxVars

\* the ticker keeps firing and the scheduler runs every goroutine that can
\* take a step
SpecPipeline ==
    /\ Init
    /\ [][NextPipeline]_vars
    /\ WF_vars(\E i \in 1 .. Len(loops) : LoopStep(i))

\* a goroutine of the driver is in its cycle for height h on a roster that
\* has validators
Driving(h) ==
    /\ vsLen > 0
    /\ \E i \in 1 .. Len(loops) : loops[i].pc # "wait" /\ loops[i].height = h

\* the closing entry updatePoHSequence appends for height h
ClosingEntry(h) ==
    \E k \in 1 .. Len(PoHSequence) :
        /\ PoHSequence[k].Index = h
        /\ PoHSequence[k].Hash[1] = 2

Finalized(h) == rewardRuns[h] >= 1 /\ ClosingEntry(h)

\* C35: when the driver runs its cycle for a height and the quorum of votes
\* for that height is recorded, during the cycle or after it, the block of
\* that height is eventually finalized: the rewards are distributed for it
\* and its closing history entry exists
C35_DrivenBlockFinalized ==
    \A h \in 1 .. MaxHeight :
        (Driving(h) /\ HasQuorum(FinalityVotes[h], vsLen)) ~> Finalized(h)

\* ---- ProduceBlock returns ----------------------------------------------------------------
\* C36: ProduceBlock returns a block or an error and never panics, on a
\* started engine with validators and no pending block as well as before the
\* history was initialized
C36_ProduceNeverPanics ==
    last.op = "ProduceBlock" => last.err # ErrPanic

\* ---- distributeRewards beside the roster operations ------------------------------------
\* distributeRewards runs under c.muFinality alone, so the roster operations,
\* which hold c.mu, run between the steps of its loop.
\* for i, val := range c.ValidatorSet: the slice is evaluated once
DistributeBegin(t) ==
    /\ ~panicked
    /\ pc[t] = "rewards"
    /\ dr[t].pc = "idle"
    /\ dr' = [dr EXCEPT ![t] = [NoLoopVars EXCEPT !.pc = "read", !.n = vsLen]]
    /\ UNCHANGED <<engineVars, quorum, halvingVars, feeVars, packageVars>>

\* val is read, c.getTotalStake() walks the roster of this moment and the
\* reward is computed; after the last index the loop ends
DistributeRead(t) ==
    LET l == dr[t]
        val == vsArray[l.i + 1]
    IN /\ ~panicked
       /\ pc[t] = "rewards"
       /\ l.pc = "read"
       /\ IF l.i >= l.n
          THEN /\ dr' = [dr EXCEPT ![t].pc = "idle"]
               /\ rewardRuns' = [rewardRuns EXCEPT ![fin[t].block.Height] = @ + 1]
               /\ pc' = [pc EXCEPT ![t] = "poh"]
          ELSE /\ dr' = [dr EXCEPT ![t].pc = "credit",
                                   ![t].reward = IF l.i < vsLen
                                                 THEN rewardShare(val.Stake,
                                                                  getTotalStake(ValidatorSet))
                                                 ELSE 0,
                                   ![t].address = IF l.i < vsLen THEN val.Address ELSE 0]
               /\ UNCHANGED <<rewardRuns, pc>>
       /\ UNCHANGED <<rosterVars, chainVars, FinalityVotes, muFinality, fin, ret, last,
                      clock, panicked, driverVars, quorum, halvingVars, feeVars,
                      packageVars>>

\* c.ValidatorSet[i].Reward += reward: the roster of this moment is indexed
DistributeCredit(t) ==
    LET l == dr[t]
        target == ValidatorSet[l.i + 1]
    IN /\ ~panicked
       /\ pc[t] = "rewards"
       /\ l.pc = "credit"
       /\ IF l.i >= vsLen
          THEN \* index out of range
               /\ panicked' = TRUE
               /\ ret' = [ret EXCEPT ![t] =
                              [status |-> ErrPanic, height |-> fin[t].block.Height,
                               have |-> 0, need |-> 0, rivals |-> fin[t].rivals]]
               /\ UNCHANGED <<vsArray, dr>>
          ELSE /\ vsArray' = [vsArray EXCEPT ![l.i + 1].Reward = (@ + l.reward) % UintMod]
               /\ dr' = [dr EXCEPT ![t].pc = "read",
                                   ![t].i = l.i + 1,
                                   ![t].credited = @ \cup {target.Address},
                                   ![t].misplaced = @ \/ target.Address # l.address]
               /\ UNCHANGED <<panicked, ret>>
       /\ UNCHANGED <<vsLen, Committees, chainVars, FinalityVotes, muFinality, pc, fin,
                      rewardRuns, last, clock, driverVars, quorum, halvingVars, feeVars,
                      packageVars>>

\* validators join before the finalization, the engine is started once, votes
\* arrive, one caller finalizes a peer's block of height 0 and validators are
\* removed and slashed while that call is under way
NextRace ==
    \/ InFlight = {} /\ GrowStaked /\ UNCHANGED auxVars
    \/ PoHSequence = <<>> /\ Start /\ UNCHANGED auxVars
    \/ \E a \in RosterAddrs : RecordFinalityVote(0, a) /\ UNCHANGED auxVars
    \/ FinalizeCall(1, PeerBlock(0, TRUE)) /\ UNCHANGED auxVars
    \/ FinalizeCheck(1) /\ UNCHANGED auxVars
    \/ DistributeBegin(1)
    \/ DistributeRead(1)
    \/ DistributeCredit(1)
    \/ FinalizeReturn(1) /\ UNCHANGED auxVars
    \/ \E a \in RosterAddrs : InFlight # {} /\ RemoveValidator(a) /\ UNCHANGED auxVars
    \/ \E a \in RosterAddrs, r \in Reasons, p \in PenaltyIn :
           InFlight # {} /\ SlashValidator(a, r, p) /\ UNCHANGED auxVars

SpecRace == Init /\ [][NextRace]_vars

RewardOf(a) == ValidatorSet[FindValidator(a)].Reward

\* C37: a roster validator's cumulative reward never decreases, a share is
\* credited to the validator it was computed for, and when the distribution
\* of a height ends every validator then in the roster has been credited
C37_SharesReachTheirValidator ==
    /\ [][\A a \in RosterAddrs \cap RosterAddrs' : RewardOf(a)' >= RewardOf(a)]_vars
    /\ [](\A t \in Callers : ~dr[t].misplaced)
    /\ [][\A t \in Callers :
             DistributeCredit(t) => ~panicked']_vars
    /\ [][\A t \in Callers :
             (DistributeRead(t) /\ pc'[t] = "poh") => RosterAddrs \subseteq dr[t].credited]_vars

\* ---- block execution (package vm) -----------------------------------------------------
\* what the calls on the EVM instance leave alone
EvmFrame == UNCHANGED <<engineVars, quorum, halvingVars, feeVars, tokenVars, dr, rw>>

\* selectShard: the transaction hash modulo the number of shards
selectShard(txHash) == txHash % EvmShards

\* the transactions of a block, by hash
RECURSIVE BlocksOfLength(_)
BlocksOfLength(k) ==
    IF k = 0 THEN {<<>>}
    ELSE {Append(b, h) : b \in BlocksOfLength(k - 1), h \in 0 .. (TxHashes - 1)}
BlocksIn == UNION {BlocksOfLength(k) : k \in 0 .. MaxBlockTxs}

\* shardTxs[id]: the block's transactions of one shard, in block order
RECURSIVE shardTxs(_, _)
shardTxs(txs, id) ==
    IF txs = <<>> THEN <<>>
    ELSE IF selectShard(Head(txs)) = id
         THEN <<Head(txs)>> \o shardTxs(Tail(txs), id)
         ELSE shardTxs(Tail(txs), id)

\* EVM.Start creates the shards, each with a fresh mutex
EvmStart ==
    /\ ~evm.panicked
    /\ evm.pc = "idle"
    /\ evm' = [evm EXCEPT !.running = TRUE,
                          !.locked = [s \in ShardIDs |-> FALSE],
                          !.Results = [s \in ShardIDs |-> {}]]
    /\ EvmFrame

\* the instance after ExecuteTransaction(tx) ran in state e: shard.mu is
\* taken and released again by the deferred Unlock, the receipt is stored
ExecuteTransactionDone(e, txHash) ==
    [e EXCEPT !.Results[selectShard(txHash)] = @ \cup {txHash}]

\* ExecuteTransaction gets past shard.mu.Lock() only while the mutex is free
ExecuteTransactionEnabled(e, txHash) == ~e.locked[selectShard(txHash)]

\* a caller executes one transaction; before Start e.shards[shardID] is nil
ExecuteTransaction(txHash) ==
    /\ ~evm.panicked
    /\ IF ~evm.running
       THEN evm' = [evm EXCEPT !.panicked = TRUE]
       ELSE /\ ExecuteTransactionEnabled(evm, txHash)
            /\ evm' = ExecuteTransactionDone(evm, txHash)
    /\ EvmFrame

AllWorkersDone == \A s \in ShardIDs : evm.workers[s].pc \in {"none", "done"}

\* ExecuteBlock: the call, which starts one goroutine per shard that has
\* transactions, and its return after wg.Wait()
ExecuteBlock(number, txs) ==
    /\ ~evm.panicked
    /\ CASE evm.pc = "idle" ->
              IF txs = <<>>
              THEN evm' = [evm EXCEPT !.currentBlock = number, !.txs = txs,
                                     !.returned = <<>>]
              ELSE evm' = [evm EXCEPT
                              !.currentBlock = number, !.txs = txs,
                              !.pc = "wait", !.resultsCh = <<>>, !.returned = <<>>,
                              !.workers = [s \in ShardIDs |->
                                              IF shardTxs(txs, s) = <<>> THEN NoWorker
                                              ELSE [pc |-> "lock",
                                                    txList |-> shardTxs(txs, s)]]]
         [] evm.pc = "wait" ->
              /\ txs = evm.txs
              /\ number = evm.currentBlock
              /\ AllWorkersDone
              /\ evm' = [evm EXCEPT !.pc = "idle", !.returned = evm.resultsCh,
                                    !.workers = [s \in ShardIDs |-> NoWorker]]
    /\ EvmFrame

\* one step of the goroutine ExecuteBlock started for shard id
Worker(id) ==
    LET w == evm.workers[id]
    IN /\ ~evm.panicked
       /\ CASE w.pc = "lock" ->
                 \* shard := e.shards[id]; shard.mu.Lock()
                 IF ~evm.running
                 THEN evm' = [evm EXCEPT !.panicked = TRUE]
                 ELSE /\ ~evm.locked[id]
                      /\ evm' = [evm EXCEPT !.locked[id] = TRUE,
                                            !.workers[id].pc = "loop"]
            [] w.pc = "loop" /\ w.txList # <<>> ->
                 \* result, _ := e.ExecuteTransaction(tx); resultsCh <- result
                 /\ ExecuteTransactionEnabled(evm, Head(w.txList))
                 /\ evm' = [ExecuteTransactionDone(evm, Head(w.txList)) EXCEPT
                               !.resultsCh = Append(@, Head(w.txList)),
                               !.workers[id].txList = Tail(w.txList)]
            [] w.pc = "loop" /\ w.txList = <<>> ->
                 \* the deferred shard.mu.Unlock() and wg.Done()
                 evm' = [evm EXCEPT !.locked[id] = FALSE, !.workers[id].pc = "done"]
            [] w.pc \in {"none", "done"} -> FALSE
       /\ EvmFrame

NextExecute ==
    \/ EvmStart
    \/ \E h \in 0 .. (TxHashes - 1) : ExecuteTransaction(h)
    \/ \E n \in {1, 2}, b \in BlocksIn : ExecuteBlock(n, b)
    \/ \E id \in ShardIDs : Worker(id)

\* every goroutine that can take a step takes one
SpecExecute ==
    /\ Init
    /\ [][NextExecute]_vars
    /\ \A id \in ShardIDs : WF_vars(Worker(id))
    /\ WF_vars(\E n \in {1, 2}, b \in BlocksIn : evm.pc = "wait" /\ ExecuteBlock(n, b))

\* C38: ExecuteBlock of a block with k >= 1 transactions on a started
\* instance returns, with exactly k results
C38_ExecuteBlockReturns ==
    (evm.running /\ evm.pc = "wait")
        ~> (evm.pc = "idle" /\ Len(evm.returned) = Len(evm.txs))

\* ---- the statistics getters and the read-write locks ---------------------------------
\* what the steps on h.mu and f.mu leave alone
LockFrame == UNCHANGED <<engineVars, quorum, halvingVars, feeVars, tokenVars, dr, evm>>

\* the getters called inside the outer read lock: GetStats calls
\* PredictExhaustion and GetRewardPoolStatus, GetBurnStats calls GetFeeStats
NestedGetters(o) ==
    IF o = "halving" THEN <<"PredictExhaustion", "GetRewardPoolStatus">>
    ELSE <<"GetFeeStats">>

\* the operations that take the write lock
Writers(o) ==
    IF o = "halving" THEN {"CalculateReward", "SetBlockNumber"}
    ELSE {"ProcessTransaction", "SetFeeConfig"}

\* sync.RWMutex: RLock waits while a writer holds the lock or a Lock call is
\* waiting for it
RLockEnabled(m) == m.writer = "none" /\ m.waiting = "none"

\* GetStats / GetBurnStats: mu.RLock()
OuterRLock(o) ==
    /\ rw[o].getter.pc = "idle"
    /\ rw[o].returns < MaxReturns
    /\ RLockEnabled(rw[o])
    /\ rw' = [rw EXCEPT ![o].readers = @ + 1, ![o].getter.pc = "in"]
    /\ LockFrame

\* the next nested getter: mu.RLock() on the same lock
NestedRLock(o) ==
    /\ rw[o].getter.pc = "in"
    /\ rw[o].getter.nested < Len(NestedGetters(o))
    /\ RLockEnabled(rw[o])
    /\ rw' = [rw EXCEPT ![o].readers = @ + 1, ![o].getter.pc = "nested"]
    /\ LockFrame

\* the nested getter returns: its deferred mu.RUnlock()
NestedRUnlock(o) ==
    /\ rw[o].getter.pc = "nested"
    /\ rw' = [rw EXCEPT ![o].readers = @ - 1, ![o].getter.pc = "in",
                        ![o].getter.nested = @ + 1]
    /\ LockFrame

\* GetStats / GetBurnStats returns: its deferred mu.RUnlock()
OuterRUnlock(o) ==
    /\ rw[o].getter.pc = "in"
    /\ rw[o].getter.nested = Len(NestedGetters(o))
    /\ rw' = [rw EXCEPT ![o].readers = @ - 1, ![o].returns = @ + 1,
                        ![o].getter = [pc |-> "idle", nested |-> 0]]
    /\ LockFrame

\* a writer calls mu.Lock(): from now on new readers wait
WriterLock(o, op) ==
    /\ rw[o].waiting = "none"
    /\ rw[o].writer = "none"
    /\ rw[o].writes < MaxReturns
    /\ rw' = [rw EXCEPT ![o].waiting = op]
    /\ LockFrame

\* the Lock call returns once the readers are gone
WriterAcquire(o) ==
    /\ rw[o].waiting # "none"
    /\ rw[o].readers = 0
    /\ rw' = [rw EXCEPT ![o].writer = rw[o].waiting, ![o].waiting = "none"]
    /\ LockFrame

\* the writer's deferred mu.Unlock()
WriterUnlock(o) ==
    /\ rw[o].writer # "none"
    /\ rw' = [rw EXCEPT ![o].writer = "none", ![o].writes = @ + 1]
    /\ LockFrame

NextStats ==
    \/ \E o \in Objects : OuterRLock(o)
    \/ \E o \in Objects : NestedRLock(o)
    \/ \E o \in Objects : NestedRUnlock(o)
    \/ \E o \in Objects : OuterRUnlock(o)
    \/ \E o \in Objects : \E op \in Writers(o) : WriterLock(o, op)
    \/ \E o \in Objects : WriterAcquire(o)
    \/ \E o \in Objects : WriterUnlock(o)

\* a goroutine that is not waiting for the lock goes on, and a goroutine
\* whose lock call can return does return
SpecStats ==
    /\ Init
    /\ [][NextStats]_vars
    /\ \A o \in Objects :
           /\ WF_vars(NestedRLock(o))
           /\ WF_vars(NestedRUnlock(o))
           /\ WF_vars(OuterRUnlock(o))
           /\ WF_vars(WriterAcquire(o))
           /\ WF_vars(WriterUnlock(o))

\* C39: a statistics getter that took its read lock returns, whatever the
\* writers do meanwhile
C39_StatsGettersReturn ==
    \A o \in Objects : (rw[o].getter.pc # "idle") ~> (rw[o].getter.pc = "idle")

====
